---- MODULE Spec2Model ----
(***************************************************************************)
(* Query classification and enhancement pipeline of Perplexica:            *)
(*   QueryClassifier (classify, getClassificationStats) and                *)
(*   QueryEnhancer (classifyIntent, expandQuerySemantically,               *)
(*   refineWithContext, enhanceQuery, enhanceQuerySpeed, getModeConfig).   *)
(*                                                                         *)
(* Strings are TLA+ strings; a character is a string of length 1.          *)
(* Confidences are kept in tenths (0.9 is 9), averages in thousandths.     *)
(***************************************************************************)
EXTENDS Integers, Sequences, FiniteSets, TLC

(***************************************************************************)
(* JavaScript string primitives                                            *)
(***************************************************************************)
charAt(s, i) == SubSeq(s, i, i)

\* the characters String.prototype.trim and the regex class \s remove/match
IsWhiteSpace(c) == c \in {" ", "\t", "\n"}

\* the regex class \w
IsWordChar(c) ==
    c \in {"a","b","c","d","e","f","g","h","i","j","k","l","m","n","o","p","q",
           "r","s","t","u","v","w","x","y","z",
           "A","B","C","D","E","F","G","H","I","J","K","L","M","N","O","P","Q",
           "R","S","T","U","V","W","X","Y","Z",
           "0","1","2","3","4","5","6","7","8","9","_"}

LowerOf ==
    [A |-> "a", B |-> "b", C |-> "c", D |-> "d", E |-> "e", F |-> "f",
     G |-> "g", H |-> "h", I |-> "i", J |-> "j", K |-> "k", L |-> "l",
     M |-> "m", N |-> "n", O |-> "o", P |-> "p", Q |-> "q", R |-> "r",
     S |-> "s", T |-> "t", U |-> "u", V |-> "v", W |-> "w", X |-> "x",
     Y |-> "y", Z |-> "z"]

lowerChar(c) == IF c \in DOMAIN LowerOf THEN LowerOf[c] ELSE c

RECURSIVE toLowerCase(_)
toLowerCase(s) ==
    IF Len(s) = 0 THEN ""
    ELSE lowerChar(charAt(s, 1)) \o toLowerCase(SubSeq(s, 2, Len(s)))

RECURSIVE trimStart(_)
trimStart(s) ==
    IF Len(s) > 0 /\ IsWhiteSpace(charAt(s, 1))
    THEN trimStart(SubSeq(s, 2, Len(s)))
    ELSE s

RECURSIVE trimEnd(_)
trimEnd(s) ==
    IF Len(s) > 0 /\ IsWhiteSpace(charAt(s, Len(s)))
    THEN trimEnd(SubSeq(s, 1, Len(s) - 1))
    ELSE s

trim(s) == trimEnd(trimStart(s))

\* the literal p occurs in s at position i (1-based)
MatchAt(s, p, i) ==
    /\ i >= 1
    /\ i + Len(p) - 1 <= Len(s)
    /\ SubSeq(s, i, i + Len(p) - 1) = p

\* String.prototype.includes
includes(s, p) == \E i \in 1..(Len(s) + 1) : MatchAt(s, p, i)

\* s.split(c) for a one-character separator c: the pieces, empty ones kept
\* (the piece that began at start, scanned up to k)
RECURSIVE splitFrom(_, _, _, _)
splitFrom(s, c, start, k) ==
    IF k > Len(s) THEN <<SubSeq(s, start, Len(s))>>
    ELSE IF charAt(s, k) = c
    THEN <<SubSeq(s, start, k - 1)>> \o splitFrom(s, c, k + 1, k + 1)
    ELSE splitFrom(s, c, start, k + 1)

split(s, c) == splitFrom(s, c, 1, 1)

\* regex /p\b/ for a literal p ending in a word character
TestLiteralBoundary(s, p) ==
    \E i \in 1..Len(s) :
        /\ MatchAt(s, p, i)
        /\ \/ i + Len(p) > Len(s)
           \/ ~IsWordChar(charAt(s, i + Len(p)))

\* regex /^head\s+/
TestHeadWs(s, head) ==
    /\ MatchAt(s, head, 1)
    /\ Len(s) > Len(head)
    /\ IsWhiteSpace(charAt(s, Len(head) + 1))

\* regex /^head\s+(a1|a2|...)\s+/
TestHeadAltWs(s, head, alts) ==
    /\ MatchAt(s, head, 1)
    /\ \E a \in alts : \E j \in (Len(head) + 2)..Len(s) :
          /\ \A k \in (Len(head) + 1)..(j - 1) : IsWhiteSpace(charAt(s, k))
          /\ MatchAt(s, a, j)
          /\ j + Len(a) <= Len(s)
          /\ IsWhiteSpace(charAt(s, j + Len(a)))

(***************************************************************************)
(* QueryClassifier: the pattern library                                    *)
(***************************************************************************)
BeVerbs == {"is", "are", "was", "were"}

\* simpleQueryPatterns.some(pattern => pattern.test(s)); s is lowercased, so
\* the /i flag changes nothing
simpleQueryPatterns(s) ==
    \/ TestHeadAltWs(s, "what", BeVerbs)
    \/ TestHeadAltWs(s, "who", BeVerbs)
    \/ TestHeadAltWs(s, "where", BeVerbs)
    \/ TestHeadAltWs(s, "when", {"did", "does", "do"})
    \/ TestHeadWs(s, "which")
    \/ TestHeadAltWs(s, "how", {"much", "many", "old", "tall", "wide", "high",
                                "long", "heavy", "big", "small"})
    \/ TestHeadAltWs(s, "how", {"many"})
    \/ TestHeadAltWs(s, "how", {"much"})

complexQueryKeywords ==
    {"best", "better", "versus", "vs", "compare", "comparison",
     "pros and cons", "advantages and disadvantages", "pros", "cons",
     "opinion", "think", "believe", "should", "recommend", "suggestion",
     "based on", "according to", "research", "study", "analysis",
     "trend", "trends", "2025", "2024", "latest", "recent",
     "performance", "review", "evaluation", "rank", "rating",
     "top", "worst", "good", "bad", "effective", "ineffective",
     "alternative", "options", "choices", "select",
     "guide", "tutorial", "learn", "understand", "explain",
     "difference", "similarities", "advantages", "disadvantages",
     "for", "against", "arguments", "reasons"}

factualIndicators ==
    {"capital", "author", "weather", "date", "definition", "population",
     "currency", "language", "president", "prime minister", "king", "queen",
     "founder", "inventor", "creator", "developer", "company",
     "height", "weight", "size", "length", "width", "depth",
     "temperature", "speed", "distance", "area", "volume",
     "gdp", "income", "unemployment", "inflation",
     "founded", "established", "born", "died", "graduated",
     "located", "situated", "position", "coordinates", "address"}

comparativePatterns ==
    {"vs", "versus", "compared to", "better than",
     "worse than", "superior to", "inferior to"}

opinionPatterns ==
    {"do you think", "what do you think", "in your opinion",
     "should i", "would you recommend", "what is your opinion"}

researchPatterns ==
    {"based on", "according to", "research shows",
     "studies indicate", "analysis of", "evaluation of"}

isSimpleQuestion(s) == simpleQueryPatterns(s)
hasComplexKeywords(s) == \E keyword \in complexQueryKeywords : includes(s, keyword)
wordCount(s) == Len(split(s, " "))
isShortQuery(s) == wordCount(s) <= 8
isLongQuery(s) == wordCount(s) > 15
hasFactualIndicators(s) == \E indicator \in factualIndicators : includes(s, indicator)
hasComparativePatterns(s) == \E p \in comparativePatterns : TestLiteralBoundary(s, p)
hasOpinionPatterns(s) == \E p \in opinionPatterns : TestLiteralBoundary(s, p)
hasResearchPatterns(s) == \E p \in researchPatterns : TestLiteralBoundary(s, p)

normalizedQuery(query) == toLowerCase(trim(query))

(***************************************************************************)
(* QueryClassifier.classify                                                *)
(***************************************************************************)
\* mutant: the confidence is given in percent
ClassificationResult_percent(needs, conf, why) ==
    [needsEnhancement |-> needs, confidence |-> conf * 10, reason |-> why]

ClassificationResult(needs, conf, why) ==
    [needsEnhancement |-> needs, confidence |-> conf, reason |-> why]

\* mutant: the length threshold is off by one
isTooShort_offByOne(s) == Len(s) < 2

\* Rule 1: empty or very short queries
isTooShort(s) == Len(s) < 3

\* the decision for a simple query (fast path)
isFastPath(s) ==
    isSimpleQuestion(s) /\ isShortQuery(s) /\ hasFactualIndicators(s)
        /\ ~hasComplexKeywords(s)

\* the decision for a complex query (enhancement needed)
isComplex(s) ==
    hasComplexKeywords(s) \/ hasComparativePatterns(s) \/ hasOpinionPatterns(s)
        \/ hasResearchPatterns(s) \/ isLongQuery(s)

\* mutant: the complex-query rule is tried before the fast-path rule
decide_complexFirst(s) ==
    IF isComplex(s)
    THEN ClassificationResult(TRUE, 8,
             "Contains complex keywords, comparative language, or research patterns")
    ELSE IF isFastPath(s)
    THEN ClassificationResult(FALSE, 9,
             "Simple factual question with clear indicators")
    ELSE IF isSimpleQuestion(s) /\ ~hasFactualIndicators(s)
    THEN ClassificationResult(TRUE, 6,
             "Simple question but lacks clear factual indicators")
    ELSE IF isShortQuery(s) /\ ~hasComplexKeywords(s)
    THEN ClassificationResult(FALSE, 7,
             "Short query without complex keywords")
    ELSE ClassificationResult(TRUE, 5, "Default to enhancement for safety")

\* mutant: the short-query rule is tried before the simple-question rule
decide_shortBeforeSimple(s) ==
    IF isFastPath(s)
    THEN ClassificationResult(FALSE, 9,
             "Simple factual question with clear indicators")
    ELSE IF isComplex(s)
    THEN ClassificationResult(TRUE, 8,
             "Contains complex keywords, comparative language, or research patterns")
    ELSE IF isShortQuery(s) /\ ~hasComplexKeywords(s)
    THEN ClassificationResult(FALSE, 7,
             "Short query without complex keywords")
    ELSE IF isSimpleQuestion(s) /\ ~hasFactualIndicators(s)
    THEN ClassificationResult(TRUE, 6,
             "Simple question but lacks clear factual indicators")
    ELSE ClassificationResult(TRUE, 5, "Default to enhancement for safety")

\* the rules after the length check, on the normalized query
decide(s) ==
    IF isFastPath(s)
    THEN ClassificationResult(FALSE, 9,
             "Simple factual question with clear indicators")
    ELSE IF isComplex(s)
    THEN ClassificationResult(TRUE, 8,
             "Contains complex keywords, comparative language, or research patterns")
    ELSE IF isSimpleQuestion(s) /\ ~hasFactualIndicators(s)
    THEN ClassificationResult(TRUE, 6,
             "Simple question but lacks clear factual indicators")
    ELSE IF isShortQuery(s) /\ ~hasComplexKeywords(s)
    THEN ClassificationResult(FALSE, 7,
             "Short query without complex keywords")
    ELSE ClassificationResult(TRUE, 5, "Default to enhancement for safety")

classify(query) ==
    LET s == normalizedQuery(query)
    IN  IF isTooShort(s)
        THEN ClassificationResult(TRUE, 9,
                 "Query too short, default to enhancement")
        ELSE decide(s)

(***************************************************************************)
(* QueryClassifier.getClassificationStats                                  *)
(***************************************************************************)
NaN == [kind |-> "NaN"]
Number(milli) == [kind |-> "number", milli |-> milli]

\* a / b on JavaScript numbers, a in tenths, b a count (never negative): the
\* quotient in thousandths, or NaN for 0 / 0
divide(a, b) ==
    IF b = 0
    THEN IF a = 0 THEN NaN ELSE [kind |-> "Infinity"]
    ELSE Number((a * 100) \div b)

\* results.reduce((sum, r) => sum + r.confidence, 0)
RECURSIVE sumConfidence(_)
sumConfidence(results) ==
    IF results = <<>> THEN 0
    ELSE Head(results).confidence + sumConfidence(Tail(results))

getClassificationStats(queries) ==
    LET results == [i \in 1..Len(queries) |-> classify(queries[i])]
    IN  [total |-> Len(queries),
         simple |-> Cardinality({i \in 1..Len(results) :
                                    ~results[i].needsEnhancement}),
         complex |-> Cardinality({i \in 1..Len(results) :
                                    results[i].needsEnhancement}),
         averageConfidence |-> divide(sumConfidence(results), Len(results))]

(***************************************************************************)
(* QueryEnhancer: configuration                                            *)
(***************************************************************************)
Modes == {"speed", "balanced", "quality"}

\* mutant: the quality row asks for as many queries as the balanced row
modeConfigs_qualityAsBalanced ==
    [speed |->
        [maxExpandedQueries |-> 1, expansionDepth |-> "lightweight",
         contextAnalysisDepth |-> 0, intentClassificationThreshold |-> 5,
         enableSemanticExpansion |-> FALSE, enableContextRefinement |-> FALSE],
     balanced |->
        [maxExpandedQueries |-> 5, expansionDepth |-> "moderate",
         contextAnalysisDepth |-> 5, intentClassificationThreshold |-> 7,
         enableSemanticExpansion |-> TRUE, enableContextRefinement |-> TRUE],
     quality |->
        [maxExpandedQueries |-> 5, expansionDepth |-> "deep",
         contextAnalysisDepth |-> 10, intentClassificationThreshold |-> 8,
         enableSemanticExpansion |-> TRUE, enableContextRefinement |-> TRUE]]

modeConfigs ==
    [speed |->
        [maxExpandedQueries |-> 1, expansionDepth |-> "lightweight",
         contextAnalysisDepth |-> 0, intentClassificationThreshold |-> 5,
         enableSemanticExpansion |-> FALSE, enableContextRefinement |-> FALSE],
     balanced |->
        [maxExpandedQueries |-> 5, expansionDepth |-> "moderate",
         contextAnalysisDepth |-> 5, intentClassificationThreshold |-> 7,
         enableSemanticExpansion |-> TRUE, enableContextRefinement |-> TRUE],
     quality |->
        [maxExpandedQueries |-> 8, expansionDepth |-> "deep",
         contextAnalysisDepth |-> 10, intentClassificationThreshold |-> 8,
         enableSemanticExpansion |-> TRUE, enableContextRefinement |-> TRUE]]

\* modeConfigs[mode]: reading a property the object does not have gives
\* undefined, nothing is thrown
getModeConfig(mode) ==
    IF mode \in DOMAIN modeConfigs THEN modeConfigs[mode]
    ELSE [type |-> "undefined"]

\* the defaults of the constructor
defaultConfig ==
    [maxExpandedQueries |-> 5, expansionDepth |-> "moderate",
     contextAnalysisDepth |-> 5, intentClassificationThreshold |-> 7,
     enableSemanticExpansion |-> TRUE, enableContextRefinement |-> TRUE]

\* the constructor: { ...defaults, ...config }
constructor(partial) ==
    [k \in DOMAIN defaultConfig |->
        IF k \in DOMAIN partial THEN partial[k] ELSE defaultConfig[k]]

(***************************************************************************)
(* QueryEnhancer: the keyword fallback of the intent classifier            *)
(***************************************************************************)
QueryIntent ==
    {"factual", "instructional", "opinion", "comparative", "explanatory",
     "news", "academic", "commercial"}

\* Object.entries(patterns), in insertion order
intentPatterns ==
    << [intent |-> "factual",
        keywords |-> {"what is", "define", "who", "when", "where",
                      "how many", "list of"}],
       [intent |-> "instructional",
        keywords |-> {"how to", "step by step", "tutorial", "guide",
                      "instructions"}],
       [intent |-> "opinion",
        keywords |-> {"best", "worst", "review", "opinion", "recommend", "vs"}],
       [intent |-> "comparative",
        keywords |-> {"compare", "difference between", "versus",
                      "alternative", "vs"}],
       [intent |-> "explanatory",
        keywords |-> {"explain", "understand", "how does", "why", "what are"}],
       [intent |-> "news",
        keywords |-> {"latest", "recent", "today", "news", "update", "2024"}],
       [intent |-> "academic",
        keywords |-> {"research", "study", "paper", "analysis", "methodology"}],
       [intent |-> "commercial",
        keywords |-> {"buy", "price", "product", "service", "shop", "discount"}] >>

intentScore(lowerQuery, keywords) ==
    Cardinality({keyword \in keywords : includes(lowerQuery, keyword)})

\* mutant: the comparison is score >= bestScore, the last maximum wins
RECURSIVE bestAfter_lastWins(_, _)
bestAfter_lastWins(lowerQuery, n) ==
    IF n = 0 THEN [intent |-> "factual", score |-> 0]
    ELSE LET best == bestAfter_lastWins(lowerQuery, n - 1)
             score == intentScore(lowerQuery, intentPatterns[n].keywords)
         IN  IF score >= best.score
             THEN [intent |-> intentPatterns[n].intent, score |-> score]
             ELSE best

\* the loop over the categories: (bestIntent, bestScore) after the first n
RECURSIVE bestAfter(_, _)
bestAfter(lowerQuery, n) ==
    IF n = 0 THEN [intent |-> "factual", score |-> 0]
    ELSE LET best == bestAfter(lowerQuery, n - 1)
             score == intentScore(lowerQuery, intentPatterns[n].keywords)
         IN  IF score > best.score
             THEN [intent |-> intentPatterns[n].intent, score |-> score]
             ELSE best

JsNumber(tenths) == [type |-> "number", tenths |-> tenths]
JsUndefined == [type |-> "undefined"]

Min(a, b) == IF a < b THEN a ELSE b

\* confidence: Math.min(bestScore * 0.3, 1.0), in tenths
fallbackIntentClassification(query) ==
    LET best == bestAfter(toLowerCase(query), Len(intentPatterns))
    IN  [intent |-> best.intent,
         confidence |-> JsNumber(Min(best.score * 3, 10))]

(***************************************************************************)
(* QueryEnhancer: extraction of terms                                      *)
(***************************************************************************)
stopWords ==
    {"the", "is", "at", "which", "on", "a", "an", "and", "or", "but", "in",
     "with", "to", "for", "of", "that", "this", "it", "was", "are", "be",
     "have", "has", "had", "do", "does", "did", "will", "would", "could",
     "should", "may", "might", "can", "how", "what", "when", "where", "why",
     "who", "there", "their", "them", "then", "than", "so", "such", "just",
     "only", "very", "really", "actually"}

\* mutant: no word is a stop word
isStopWord_none(word) == FALSE

isStopWord(word) == word \in stopWords

\* the first position from k on that holds no white space
RECURSIVE skipWhiteSpace(_, _)
skipWhiteSpace(s, k) ==
    IF k <= Len(s) /\ IsWhiteSpace(charAt(s, k)) THEN skipWhiteSpace(s, k + 1)
    ELSE k

\* s.split(/\s+/): the pieces between runs of white space
RECURSIVE splitWhiteSpaceFrom(_, _, _)
splitWhiteSpaceFrom(s, start, k) ==
    IF k > Len(s) THEN <<SubSeq(s, start, Len(s))>>
    ELSE IF IsWhiteSpace(charAt(s, k))
    THEN LET next == skipWhiteSpace(s, k)
         IN  <<SubSeq(s, start, k - 1)>> \o splitWhiteSpaceFrom(s, next, next)
    ELSE splitWhiteSpaceFrom(s, start, k + 1)

splitWhiteSpace(s) == splitWhiteSpaceFrom(s, 1, 1)

Contains(list, x) == \E i \in 1..Len(list) : list[i] = x

\* terms.add(word) for each kept word of the message, on an insertion-ordered Set
RECURSIVE addWords(_, _)
addWords(terms, words) ==
    IF words = <<>> THEN terms
    ELSE LET word == Head(words)
             kept == Len(word) > 3 /\ ~isStopWord(word)
         IN  addWords(IF kept /\ ~Contains(terms, word)
                      THEN Append(terms, word) ELSE terms,
                      Tail(words))

RECURSIVE collectTerms(_, _)
collectTerms(terms, messages) ==
    IF messages = <<>> THEN terms
    ELSE collectTerms(
             addWords(terms, splitWhiteSpace(toLowerCase(Head(messages)))),
             Tail(messages))

\* Array.prototype.slice(start) and slice(0, end) for the arguments in use
sliceFirst(list, n) ==
    IF n >= 0 THEN SubSeq(list, 1, Min(n, Len(list)))
    ELSE SubSeq(list, 1, Len(list) + n)

\* list.slice(-n): the last n elements for n > 0; -0 is 0, so slice(-0) is the
\* whole list; for n < 0 the start index is -n
sliceLast(list, n) ==
    IF n = 0 THEN list
    ELSE IF n > 0
    THEN SubSeq(list, Len(list) - Min(n, Len(list)) + 1, Len(list))
    ELSE SubSeq(list, Min(0 - n, Len(list)) + 1, Len(list))

extractSemanticTerms(queries) == sliceFirst(collectTerms(<<>>, queries), 10)

extractContextTerms(config, chatHistory) ==
    sliceFirst(
        collectTerms(<<>>, sliceLast(chatHistory, config.contextAnalysisDepth)),
        8)

(***************************************************************************)
(* QueryEnhancer: the stages, as steps of one invocation.                  *)
(* A frame holds the locals of the invocation and the position (pc) of the *)
(* external call it awaits; a step runs from one await to the next.        *)
(***************************************************************************)
NoCall == [op |-> "none"]
NoResult == [kind |-> "none"]
NoIntent == [intent |-> "none", confidence |-> JsUndefined]
NoRefinement == [kind |-> "none"]

NewFrame ==
    [pc |-> "idle", intentResult |-> NoIntent, relatedTerms |-> <<>>, i |-> 0,
     expandedQueries |-> <<>>, contextRefinement |-> NoRefinement,
     result |-> NoResult, calls |-> <<>>, failed |-> {}]

\* an external call is issued: llm.invoke(prompt) or embeddings.embedQuery(text)
Issue(f, service, site, args) ==
    [f EXCEPT !.calls = Append(@, [service |-> service, site |-> site,
                                   args |-> args])]

Returned(f, value) == [f EXCEPT !.pc = "returned", !.result = value]
Thrown(f) == [f EXCEPT !.pc = "thrown"]
Failed(f, site) == [f EXCEPT !.failed = @ \cup {site}]

\* ---- enhanceQuery, from the refinement on
passThrough(query) ==
    [refinedQuery |-> query, focusAreas |-> <<>>, exclusionTerms |-> <<>>,
     timeSensitivity |-> "low", sourcePreferences |-> <<>>]

\* mutant: the refined query is added to the expanded queries
QueryExpansion_usesRefinement(config, query, chatHistory, f) ==
    [originalQuery |-> query,
     expandedQueries |->
         Append(f.expandedQueries, f.contextRefinement.refinedQuery),
     semanticTerms |-> extractSemanticTerms(f.expandedQueries),
     contextTerms |-> extractContextTerms(config, chatHistory),
     intent |-> f.intentResult.intent,
     confidence |-> f.intentResult.confidence]

QueryExpansion(config, query, chatHistory, f) ==
    [originalQuery |-> query,
     expandedQueries |-> f.expandedQueries,
     semanticTerms |-> extractSemanticTerms(f.expandedQueries),
     contextTerms |-> extractContextTerms(config, chatHistory),
     intent |-> f.intentResult.intent,
     confidence |-> f.intentResult.confidence]

afterRefine(config, op, query, chatHistory, f) ==
    IF op = "refineWithContext" THEN Returned(f, f.contextRefinement)
    ELSE Returned(f, QueryExpansion(config, query, chatHistory, f))

\* mutant: refineWithContext without its try/catch
refineCatch_rethrows(query) == [threw |-> TRUE, value |-> passThrough(query)]

\* the catch block of refineWithContext
refineCatch(query) == [threw |-> FALSE, value |-> passThrough(query)]

refineFailed(config, op, query, chatHistory, f) ==
    LET caught == refineCatch(query)
    IN  IF caught.threw THEN Thrown(Failed(f, "refineWithContext"))
        ELSE afterRefine(config, op, query, chatHistory,
                 [Failed(f, "refineWithContext")
                     EXCEPT !.contextRefinement = caught.value])

\* mutant: the guard consults the switch only, not the length of the history
startRefine_ignoresHistory(config, op, query, chatHistory, intent, f) ==
    IF ~config.enableContextRefinement
    THEN afterRefine(config, op, query, chatHistory,
             [f EXCEPT !.contextRefinement = passThrough(query)])
    ELSE [Issue(f, "llm", "refineWithContext",
                [query |-> query,
                 history |-> sliceLast(chatHistory, config.contextAnalysisDepth),
                 intent |-> intent])
             EXCEPT !.pc = "refine_llm"]

startRefine(config, op, query, chatHistory, intent, f) ==
    IF ~config.enableContextRefinement \/ Len(chatHistory) = 0
    THEN afterRefine(config, op, query, chatHistory,
             [f EXCEPT !.contextRefinement = passThrough(query)])
    ELSE [Issue(f, "llm", "refineWithContext",
                [query |-> query,
                 history |-> sliceLast(chatHistory, config.contextAnalysisDepth),
                 intent |-> intent])
             EXCEPT !.pc = "refine_llm"]

\* result.field || fallback on the parsed reply, for a string field: a missing
\* field and the empty string are falsy
orElse(object, field, fallback) ==
    IF field \in DOMAIN object /\ object[field] # "" THEN object[field]
    ELSE fallback

\* result.field || [] for a list field: every list is truthy
orElseList(object, field) ==
    IF field \in DOMAIN object THEN object[field] ELSE <<>>

\* the reply rejects or JSON.parse throws: the catch block; JSON.parse gave
\* null: reading a property of it throws, the catch block again; it gave a
\* primitive: every property reads as undefined and no exception is raised
\* (the reply is recorded as failed all the same)
refineReply(config, op, query, chatHistory, f, reply) ==
    IF reply.kind # "json" \/ reply.value.type = "null"
    THEN refineFailed(config, op, query, chatHistory, f)
    ELSE LET isObject == reply.value.type = "object"
             result == IF isObject THEN reply.value.fields ELSE <<>>
             g == IF isObject THEN f ELSE Failed(f, "refineWithContext")
         IN  afterRefine(config, op, query, chatHistory,
                 [g EXCEPT !.contextRefinement =
                     [refinedQuery |-> orElse(result, "refinedQuery", query),
                      focusAreas |-> orElseList(result, "focusAreas"),
                      exclusionTerms |-> orElseList(result, "exclusionTerms"),
                      timeSensitivity |-> orElse(result, "timeSensitivity", "low"),
                      sourcePreferences |->
                          orElseList(result, "sourcePreferences")]])

\* ---- expandQuerySemantically
\* mutant: the refinement is given the default intent, not the classified one
afterExpand_defaultIntent(config, op, query, chatHistory, f) ==
    IF op = "expandQuerySemantically" THEN Returned(f, f.expandedQueries)
    ELSE startRefine(config, op, query, chatHistory, "factual", f)

afterExpand(config, op, query, chatHistory, f) ==
    IF op = "expandQuerySemantically" THEN Returned(f, f.expandedQueries)
    ELSE startRefine(config, op, query, chatHistory, f.intentResult.intent, f)

\* mutant: the catch block returns an empty list
expandCatch_emptyList(query) == [threw |-> FALSE, value |-> <<>>]

\* mutant: expandQuerySemantically without its try/catch
expandCatch_rethrows(query) == [threw |-> TRUE, value |-> <<>>]

\* the catch block of expandQuerySemantically
expandCatch(query) == [threw |-> FALSE, value |-> <<query>>]

expandFailed(config, op, query, chatHistory, f) ==
    LET caught == expandCatch(query)
    IN  IF caught.threw THEN Thrown(f)
        ELSE afterExpand(config, op, query, chatHistory,
                 [f EXCEPT !.expandedQueries = caught.value])

\* mutant: the loop runs once more
alternativeCount_oneMore(config, relatedTerms) ==
    Min(config.maxExpandedQueries, Len(relatedTerms))

\* the number of alternative queries asked for
alternativeCount(config, relatedTerms) ==
    Min(config.maxExpandedQueries - 1, Len(relatedTerms))

\* what expandQuerySemantically returns after the loop
expandReturn(config, expandedQueries) ==
    sliceFirst(expandedQueries, config.maxExpandedQueries)

\* the head of the for loop: the next generateAlternativeQuery, or the return
expandLoop(config, op, query, chatHistory, f) ==
    IF f.i < alternativeCount(config, f.relatedTerms)
    THEN [Issue(f, "llm", "generateAlternativeQuery",
                [query |-> query, term |-> f.relatedTerms[f.i + 1]])
             EXCEPT !.pc = "alt_llm"]
    ELSE afterExpand(config, op, query, chatHistory,
             [f EXCEPT !.expandedQueries = expandReturn(config, @)])

\* mutant: the enableSemanticExpansion switch is not consulted
startExpand_ignoresSwitch(config, op, query, chatHistory, f) ==
    [Issue(f, "embeddings", "expandQuerySemantically", [query |-> query])
        EXCEPT !.pc = "embed"]

startExpand(config, op, query, chatHistory, f) ==
    IF ~config.enableSemanticExpansion
    THEN afterExpand(config, op, query, chatHistory,
             [f EXCEPT !.expandedQueries = <<query>>])
    ELSE [Issue(f, "embeddings", "expandQuerySemantically", [query |-> query])
             EXCEPT !.pc = "embed"]

embedReply(config, op, query, chatHistory, f, reply) ==
    IF reply.kind = "throw"
    THEN expandFailed(config, op, query, chatHistory,
             Failed(f, "embedQuery"))
    ELSE [Issue(f, "llm", "expandQuerySemantically", [query |-> query])
             EXCEPT !.pc = "terms_llm"]

\* content.split('\n').map(term => term.trim()).filter(term => term.length > 0)
parseTerms(content) ==
    LET lines == split(content, "\n")
        trimmed == [k \in 1..Len(lines) |-> trim(lines[k])]
    IN  SelectSeq(trimmed, LAMBDA term : Len(term) > 0)

termsReply(config, op, query, chatHistory, f, reply) ==
    IF reply.kind # "content"
    THEN expandFailed(config, op, query, chatHistory, Failed(f, "relatedTerms"))
    ELSE expandLoop(config, op, query, chatHistory,
             [f EXCEPT !.relatedTerms = parseTerms(reply.content),
                       !.expandedQueries = <<query>>,
                       !.i = 0])

\* the catch block of generateAlternativeQuery
generateAlternativeCatch == [threw |-> FALSE, isNull |-> TRUE, value |-> ""]

\* generateAlternativeQuery, from the reply of the model on
generateAlternativeQuery(originalQuery, reply) ==
    IF reply.kind # "content" THEN generateAlternativeCatch
    ELSE LET newQuery == trim(reply.content)
         IN  IF newQuery # "" /\ newQuery # originalQuery
             THEN [threw |-> FALSE, isNull |-> FALSE, value |-> newQuery]
             ELSE [threw |-> FALSE, isNull |-> TRUE, value |-> ""]

\* the body of the for loop after the await
pushAlternative(expandedQueries, alternative) ==
    IF ~alternative.isNull /\ alternative.value # ""
          /\ ~Contains(expandedQueries, alternative.value)
    THEN Append(expandedQueries, alternative.value)
    ELSE expandedQueries

altReply(config, op, query, chatHistory, f, reply) ==
    LET alternative == generateAlternativeQuery(query, reply)
        g == IF reply.kind # "content"
             THEN Failed(f, "generateAlternativeQuery") ELSE f
    IN  IF alternative.threw
        THEN expandFailed(config, op, query, chatHistory, g)
        ELSE expandLoop(config, op, query, chatHistory,
                 [g EXCEPT !.expandedQueries = pushAlternative(@, alternative),
                           !.i = @ + 1])

\* ---- classifyIntent
afterIntent(config, op, query, chatHistory, f) ==
    IF op = "classifyIntent" THEN Returned(f, f.intentResult)
    ELSE startExpand(config, op, query, chatHistory, f)

\* mutant: classifyIntent without its try/catch, the failure reaches the caller
classifyIntentCatch_rethrows(query) ==
    [threw |-> TRUE, value |-> NoIntent]

\* the catch block of classifyIntent
classifyIntentCatch(query) ==
    [threw |-> FALSE, value |-> fallbackIntentClassification(query)]

startIntent(query, chatHistory, f) ==
    [Issue(f, "llm", "classifyIntent",
           [query |-> query, history |-> sliceLast(chatHistory, 3)])
        EXCEPT !.pc = "intent_llm"]

\* JSON.parse(content) gave an object or a primitive: reading .intent and
\* .confidence of it works, a missing field reads as undefined; null throws
intentReply(config, op, query, chatHistory, f, reply) ==
    IF reply.kind # "json" \/ reply.value.type = "null"
    THEN LET caught == classifyIntentCatch(query)
             g == Failed(f, "classifyIntent")
         IN  IF caught.threw THEN Thrown(g)
             ELSE afterIntent(config, op, query, chatHistory,
                      [g EXCEPT !.intentResult = caught.value])
    ELSE afterIntent(config, op, query, chatHistory,
             [f EXCEPT !.intentResult =
                 [intent |-> reply.value.intent,
                  confidence |-> reply.value.confidence]])

\* ---- enhanceQuerySpeed
\* mutant: the intent and the confidence come from the keyword fallback
enhanceQuerySpeed_fallbackIntent(config, query, chatHistory) ==
    [originalQuery |-> query,
     expandedQueries |-> <<query>>,
     semanticTerms |-> extractSemanticTerms(<<query>>),
     contextTerms |-> IF Len(chatHistory) > 0
                      THEN extractContextTerms(config, chatHistory) ELSE <<>>,
     intent |-> fallbackIntentClassification(query).intent,
     confidence |-> fallbackIntentClassification(query).confidence]

enhanceQuerySpeed(config, query, chatHistory) ==
    [originalQuery |-> query,
     expandedQueries |-> <<query>>,
     semanticTerms |-> extractSemanticTerms(<<query>>),
     contextTerms |-> IF Len(chatHistory) > 0
                      THEN extractContextTerms(config, chatHistory) ELSE <<>>,
     intent |-> "factual",
     confidence |-> JsNumber(8)]

\* ---- the entry points: the frame at the first await, or at the return
startCall(config, op, query, chatHistory, intent) ==
    CASE op = "enhanceQuery" -> startIntent(query, chatHistory, NewFrame)
      [] op = "classifyIntent" -> startIntent(query, chatHistory, NewFrame)
      [] op = "expandQuerySemantically" ->
            startExpand(config, op, query, chatHistory, NewFrame)
      [] op = "refineWithContext" ->
            startRefine(config, op, query, chatHistory, intent, NewFrame)
      [] op = "enhanceQuerySpeed" ->
            Returned(NewFrame, enhanceQuerySpeed(config, query, chatHistory))

(***************************************************************************)
(* State                                                                   *)
(***************************************************************************)
VARIABLES
    classifierCall,    \* the call made on the QueryClassifier: [op, arg]
    classifierPc,      \* "idle", "called" or "returned"
    classifierResult,  \* what the call returned
    config,            \* QueryEnhancer.config, set by the constructor
    call,              \* the call made on the QueryEnhancer
    pc,                \* the await the invocation is at, "returned" or "thrown"
    intentResult,      \* enhanceQuery: intentResult
    relatedTerms,      \* expandQuerySemantically: relatedTerms
    i,                 \* expandQuerySemantically: the loop index
    expandedQueries,   \* expandQuerySemantically: expandedQueries
    contextRefinement, \* enhanceQuery: contextRefinement
    result,            \* the value the call resolved to
    calls,             \* the calls issued to the LLM and the embedding service
    failed,            \* the call sites whose external call failed: it
                       \* rejected or its reply was unusable
    invocations        \* concurrent enhanceQuery invocations on one enhancer:
                       \* for each its call, its locals (a frame) and the
                       \* replies it has received

classifierVars == <<classifierCall, classifierPc, classifierResult>>
frameVars == <<pc, intentResult, relatedTerms, i, expandedQueries,
               contextRefinement, result, calls, failed>>
enhancerVars == <<config, call, frameVars>>
vars == <<classifierVars, enhancerVars, invocations>>

Frame ==
    [pc |-> pc, intentResult |-> intentResult, relatedTerms |-> relatedTerms,
     i |-> i, expandedQueries |-> expandedQueries,
     contextRefinement |-> contextRefinement, result |-> result,
     calls |-> calls, failed |-> failed]

SetFrame(f) ==
    /\ pc' = f.pc
    /\ intentResult' = f.intentResult
    /\ relatedTerms' = f.relatedTerms
    /\ i' = f.i
    /\ expandedQueries' = f.expandedQueries
    /\ contextRefinement' = f.contextRefinement
    /\ result' = f.result
    /\ calls' = f.calls
    /\ failed' = f.failed

\* the enhancer's locals before a call
IdleFrame ==
    /\ pc = NewFrame.pc
    /\ intentResult = NewFrame.intentResult
    /\ relatedTerms = NewFrame.relatedTerms
    /\ i = NewFrame.i
    /\ expandedQueries = NewFrame.expandedQueries
    /\ contextRefinement = NewFrame.contextRefinement
    /\ result = NewFrame.result
    /\ calls = NewFrame.calls
    /\ failed = NewFrame.failed

\* the number of concurrent invocations
MaxInvocations == 2

Invocations == 1..MaxInvocations

NoInvocation == [call |-> NoCall, frame |-> NewFrame, replies |-> <<>>]

IdleInvocations == invocations = [p \in Invocations |-> NoInvocation]

IdleEnhancer ==
    /\ config = defaultConfig
    /\ call = NoCall
    /\ IdleFrame
    /\ IdleInvocations

IdleClassifier ==
    /\ classifierCall = NoCall
    /\ classifierPc = "idle"
    /\ classifierResult = NoResult

(***************************************************************************)
(* Inputs of the classifier: an opener, a body, a tail and filler words    *)
(***************************************************************************)
MaxPad == 10
MaxBatch == 2

Openers ==
    {"", "what is", " What  is", "Who wrote", "who was", "which",
     "how many", "when did", "where\tis", "how to"}

Bodies ==
    {"", "the capital of France", "king", "AI", "the weather forecast",
     "a laptop"}

Tails ==
    {"", "?", " ", "\t\n", "Hi", "vs", "tvs", "vsync", "x vs y"}
        \cup comparativePatterns \cup opinionPatterns \cup researchPatterns

RECURSIVE Pad(_)
Pad(k) == IF k = 0 THEN "" ELSE "zz" \o (IF k = 1 THEN "" ELSE " " \o Pad(k - 1))

\* the non-empty parts, joined by single spaces
JoinParts(a, b) == IF a = "" THEN b ELSE IF b = "" THEN a ELSE a \o " " \o b

ClassifierQueries ==
    {JoinParts(JoinParts(JoinParts(o, b), t), Pad(k)) :
        o \in Openers, b \in Bodies, t \in Tails, k \in 0..MaxPad}

BatchQueries ==
    {"", "What is the capital of France?", "iPhone vs Android", "Hello how are you"}

RECURSIVE SeqsUpTo(_, _)
SeqsUpTo(S, n) ==
    IF n = 0 THEN {<<>>}
    ELSE LET shorter == SeqsUpTo(S, n - 1)
         IN  shorter \cup {Append(q, x) : q \in shorter, x \in S}


(***************************************************************************)
(* The classifier's operations: a call is drawn, then it runs              *)
(***************************************************************************)
\* queries of the classifier's tests
EdgeCaseQueries ==
    {"Hi", "Hello how are you", "What is AI", "What is AI?",
     "What is the best AI model", "Where is the Eiffel Tower?",
     "Who wrote Romeo and Juliet?", "When did World War II end?",
     "How many continents are there?"}

ClassifierCalls ==
    {[op |-> "classify", arg |-> query] :
        query \in ClassifierQueries \cup EdgeCaseQueries}
        \cup {[op |-> "getClassificationStats", arg |-> queries] :
                 queries \in SeqsUpTo(BatchQueries, MaxBatch)}

Classify ==
    /\ classifierPc = "called"
    /\ classifierCall.op = "classify"
    /\ classifierResult' = classify(classifierCall.arg)
    /\ classifierPc' = "returned"
    /\ UNCHANGED <<classifierCall, enhancerVars, invocations>>

GetClassificationStats ==
    /\ classifierPc = "called"
    /\ classifierCall.op = "getClassificationStats"
    /\ classifierResult' = getClassificationStats(classifierCall.arg)
    /\ classifierPc' = "returned"
    /\ UNCHANGED <<classifierCall, enhancerVars, invocations>>

InitClassifier ==
    /\ classifierCall \in ClassifierCalls
    /\ classifierPc = "called"
    /\ classifierResult = NoResult
    /\ IdleEnhancer

NextClassifier == Classify \/ GetClassificationStats

SpecClassifier == InitClassifier /\ [][NextClassifier]_vars

(***************************************************************************)
(* Inputs of the enhancer and replies of the external services             *)
(***************************************************************************)
MaxTerms == 8

\* the configurations an enhancer is constructed with: the three modes, the
\* defaults, and the defaults with the expansion switched off
Configs ==
    {constructor(getModeConfig(mode)) : mode \in Modes}
        \cup {constructor([expansionDepth |-> "moderate"]),
              constructor([enableSemanticExpansion |-> FALSE])}

EnhancerQueries ==
    {"", "What is the capital of France?", "iPhone vs Android"}

Histories ==
    {<<>>,
     <<"User: tell me about Paris", "Assistant: Paris is the capital of France",
       "User: and which phones are popular there", "Assistant: Apple and Samsung">>}

\* queries for classifyIntent alone: no keyword, one keyword, the same
\* keyword in two categories, ties between categories, more than three
\* keywords of one category, upper case
IntentQueries ==
    EnhancerQueries
        \cup {"why", "How to compare", "latest research study news",
              "Compare the BEST vs worst review: opinion",
              "who when where define", "buy a cheap product"}

\* queries for enhanceQuerySpeed alone: more than ten words that are kept as
\* terms, a repeated word, upper case and stop words
SpeedQueries ==
    EnhancerQueries
        \cup {"Alpha bravo charlie delta  echo foxtrot golf hotel india juliet "
                  \o "kilo lima ALPHA Which there mike"}

EnhancerCalls ==
    {[op |-> "enhanceQuery", query |-> query, chatHistory |-> chatHistory,
      intent |-> "none"] : query \in EnhancerQueries, chatHistory \in Histories}
      \cup
    {[op |-> "enhanceQuerySpeed", query |-> query, chatHistory |-> chatHistory,
      intent |-> "none"] : query \in SpeedQueries, chatHistory \in Histories}
      \cup
    {[op |-> "classifyIntent", query |-> query, chatHistory |-> chatHistory,
      intent |-> "none"] : query \in IntentQueries, chatHistory \in Histories}
      \cup
    {[op |-> "expandQuerySemantically", query |-> query, chatHistory |-> <<>>,
      intent |-> "none"] : query \in EnhancerQueries}
      \cup
    {[op |-> "refineWithContext", query |-> query, chatHistory |-> chatHistory,
      intent |-> intent] :
        query \in EnhancerQueries, chatHistory \in Histories,
        intent \in {"factual", "comparative"}}

Throws == [kind |-> "throw"]

\* llm.invoke for classifyIntent: it rejects, its content is no JSON, or the
\* content parses to null or to an object
IntentReplies ==
    {Throws, [kind |-> "notJSON"], [kind |-> "json", value |-> [type |-> "null"]]}
      \cup
    {[kind |-> "json",
      value |-> [type |-> "object", intent |-> v[1], confidence |-> v[2]]] :
        v \in {<<"comparative", JsNumber(9)>>, <<"shopping", JsNumber(15)>>,
               <<"undefined", JsUndefined>>}}

EmbedReplies == {Throws, [kind |-> "vector"]}

RECURSIVE Term(_)
Term(k) == IF k <= 1 THEN "t" ELSE "t" \o Term(k - 1)

\* n terms one per line, padded with blanks, a blank line at the end
RECURSIVE TermLines(_)
TermLines(n) ==
    IF n = 0 THEN "" ELSE TermLines(n - 1) \o " " \o Term(n) \o " \n"

\* llm.invoke for the related terms: it rejects, its content is no string, or
\* it lists no term, one term, two terms, MaxTerms terms, or three terms of
\* which the first two are the same
TermsReplies ==
    {Throws, [kind |-> "notString"]}
      \cup {[kind |-> "content", content |-> TermLines(n)] :
               n \in {0, 1, 2, MaxTerms}}
      \cup {[kind |-> "content", content |-> "t\n\n" \o TermLines(2)]}

\* llm.invoke for one alternative query: it rejects, its content is no string,
\* it echoes the query, it is empty, or it incorporates the term
AltReplies(query, term) ==
    {Throws, [kind |-> "notString"],
     [kind |-> "content", content |-> " " \o query \o "\n"],
     [kind |-> "content", content |-> query \o " " \o term \o "\n"]}

\* llm.invoke for the refinement: it rejects, its content is no JSON, or the
\* content parses to null, to a number or to an object
RefineReplies ==
    {Throws, [kind |-> "notJSON"], [kind |-> "json", value |-> [type |-> "null"]],
     [kind |-> "json", value |-> [type |-> "number"]],
     [kind |-> "json",
      value |-> [type |-> "object",
                 fields |-> [refinedQuery |-> "popular phones in Paris",
                             focusAreas |-> <<"phones">>,
                             exclusionTerms |-> <<"tablets">>,
                             timeSensitivity |-> "high",
                             sourcePreferences |-> <<"reviews">>]]],
     [kind |-> "json",
      value |-> [type |-> "object", fields |-> [refinedQuery |-> ""]]]}

(***************************************************************************)
(* The enhancer's operations: a call, then one step per reply              *)
(***************************************************************************)
Step(f) ==
    SetFrame(f) /\ UNCHANGED <<config, call, classifierVars, invocations>>

Resume(at) == /\ pc = at
              /\ call.op # "none"

\* a public method of the enhancer is called
Call ==
    /\ pc = "idle"
    /\ \E c \in EnhancerCalls :
          /\ call' = c
          /\ SetFrame(startCall(config, c.op, c.query, c.chatHistory, c.intent))
    /\ UNCHANGED <<config, classifierVars, invocations>>

IntentReply ==
    /\ Resume("intent_llm")
    /\ \E reply \in IntentReplies :
          Step(intentReply(config, call.op, call.query, call.chatHistory,
                           Frame, reply))

EmbedReply ==
    /\ Resume("embed")
    /\ \E reply \in EmbedReplies :
          Step(embedReply(config, call.op, call.query, call.chatHistory,
                          Frame, reply))

TermsReply ==
    /\ Resume("terms_llm")
    /\ \E reply \in TermsReplies :
          Step(termsReply(config, call.op, call.query, call.chatHistory,
                          Frame, reply))

AltReply ==
    /\ Resume("alt_llm")
    /\ \E reply \in AltReplies(call.query, relatedTerms[i + 1]) :
          Step(altReply(config, call.op, call.query, call.chatHistory,
                        Frame, reply))

RefineReply ==
    /\ Resume("refine_llm")
    /\ \E reply \in RefineReplies :
          Step(refineReply(config, call.op, call.query, call.chatHistory,
                           Frame, reply))

\* the mode tags a caller passes: the three of the type, and tags that reach
\* the method unchecked at run time
ModeTags == Modes \cup {"turbo", ""}

\* getModeConfig is called: it returns without an await
GetModeConfig ==
    /\ pc = "idle"
    /\ \E mode \in ModeTags :
          /\ call' = [op |-> "getModeConfig", mode |-> mode]
          /\ SetFrame(Returned(NewFrame, getModeConfig(mode)))
    /\ UNCHANGED <<config, classifierVars, invocations>>

Init ==
    /\ config \in Configs
    /\ call = NoCall
    /\ IdleFrame
    /\ IdleInvocations
    /\ IdleClassifier

Next ==
    \/ Call
    \/ GetModeConfig
    \/ IntentReply
    \/ EmbedReply
    \/ TermsReply
    \/ AltReply
    \/ RefineReply

Spec == Init /\ [][Next]_vars

\* Progress: a caller eventually calls, and that is all the code schedules by
\* itself. Between two awaits an invocation has no step of its own: it goes
\* on when the awaited promise settles, and no call site races the promise
\* against a timer, so no fairness is assumed for the replies of the services.
SpecProgress == Spec /\ WF_vars(Call)

(***************************************************************************)
(* Concurrent invocations of enhanceQuery on one enhancer: each runs from  *)
(* one await to the next, and the replies arrive in any interleaving       *)
(***************************************************************************)
\* mutant: the locals are fields of the enhancer, one slot for all invocations
frameOf_instanceField(p) == 1

\* where the locals of invocation p live: in the invocation's own activation
frameOf(p) == p

Locals(p) == invocations[frameOf(p)].frame

Awaits(p, at) ==
    /\ invocations[p].call.op # "none"
    /\ Locals(p).pc = at

\* invocation p goes on to its next await (or returns) with the frame f
Proceed(p, f, reply) ==
    /\ invocations' = [invocations EXCEPT ![p].replies = Append(@, reply),
                                          ![frameOf(p)].frame = f]
    /\ UNCHANGED <<config, call, frameVars, classifierVars>>

Digit(p) == SubSeq("0123456789", p + 1, p + 1)

\* the argument of the p-th invocation
ConcurrentQuery(p) == "Test query " \o Digit(p)

ConcurrentHistory == <<"some history">>

ConcurrentIntentReplies ==
    {Throws,
     [kind |-> "json",
      value |-> [type |-> "object", intent |-> "comparative",
                 confidence |-> JsNumber(9)]]}

ConcurrentTermsReplies ==
    {Throws, [kind |-> "content", content |-> TermLines(1)]}

ConcurrentAltReplies(query, term) ==
    {Throws, [kind |-> "content", content |-> query \o " " \o term \o "\n"]}

ConcurrentRefineReplies ==
    {Throws,
     [kind |-> "json",
      value |-> [type |-> "object",
                 fields |-> [refinedQuery |-> "refined",
                             timeSensitivity |-> "high"]]]}

ConcurrentCall(p) ==
    /\ invocations[p].call = NoCall
    /\ invocations' =
          [invocations EXCEPT
              ![p].call = [op |-> "enhanceQuery", query |-> ConcurrentQuery(p),
                           chatHistory |-> ConcurrentHistory, intent |-> "none"],
              ![frameOf(p)].frame =
                  startCall(config, "enhanceQuery", ConcurrentQuery(p),
                            ConcurrentHistory, "none")]
    /\ UNCHANGED <<config, call, frameVars, classifierVars>>

ConcurrentIntentReply(p) ==
    /\ Awaits(p, "intent_llm")
    /\ \E reply \in ConcurrentIntentReplies :
          Proceed(p, intentReply(config, invocations[p].call.op,
                                 invocations[p].call.query,
                                 invocations[p].call.chatHistory,
                                 Locals(p), reply), reply)

ConcurrentEmbedReply(p) ==
    /\ Awaits(p, "embed")
    /\ \E reply \in EmbedReplies :
          Proceed(p, embedReply(config, invocations[p].call.op,
                                invocations[p].call.query,
                                invocations[p].call.chatHistory,
                                Locals(p), reply), reply)

ConcurrentTermsReply(p) ==
    /\ Awaits(p, "terms_llm")
    /\ \E reply \in ConcurrentTermsReplies :
          Proceed(p, termsReply(config, invocations[p].call.op,
                                invocations[p].call.query,
                                invocations[p].call.chatHistory,
                                Locals(p), reply), reply)

ConcurrentAltReply(p) ==
    /\ Awaits(p, "alt_llm")
    /\ \E reply \in ConcurrentAltReplies(
                        invocations[p].call.query,
                        Locals(p).relatedTerms[Locals(p).i + 1]) :
          Proceed(p, altReply(config, invocations[p].call.op,
                              invocations[p].call.query,
                              invocations[p].call.chatHistory,
                              Locals(p), reply), reply)

ConcurrentRefineReply(p) ==
    /\ Awaits(p, "refine_llm")
    /\ \E reply \in ConcurrentRefineReplies :
          Proceed(p, refineReply(config, invocations[p].call.op,
                                 invocations[p].call.query,
                                 invocations[p].call.chatHistory,
                                 Locals(p), reply), reply)

\* one enhancer, constructed with { maxExpandedQueries: 2 }, not yet called
InitConcurrent ==
    /\ config = constructor([maxExpandedQueries |-> 2])
    /\ call = NoCall
    /\ IdleFrame
    /\ IdleInvocations
    /\ IdleClassifier

NextConcurrent ==
    \E p \in Invocations :
        \/ ConcurrentCall(p)
        \/ ConcurrentIntentReply(p)
        \/ ConcurrentEmbedReply(p)
        \/ ConcurrentTermsReply(p)
        \/ ConcurrentAltReply(p)
        \/ ConcurrentRefineReply(p)

SpecConcurrent == InitConcurrent /\ [][NextConcurrent]_vars

(***************************************************************************)
(* Claims about QueryEnhancer (checked under Spec)                         *)
(***************************************************************************)
IsModeConfig == \E mode \in Modes : config = constructor(getModeConfig(mode))

ExpansionSites == {"expandQuerySemantically", "generateAlternativeQuery"}

ExpandReturned ==
    call.op = "expandQuerySemantically" /\ pc = "returned"

EnhanceReturned == call.op = "enhanceQuery" /\ pc = "returned"

\* C1: enhanceQuery never throws and returns a QueryExpansion whose
\* originalQuery is the input query, for every query, history and outcome of
\* the external calls.
C1_EnhanceQueryIsTotal ==
    call.op = "enhanceQuery"
        => /\ pc # "thrown"
           /\ pc = "returned" => result.originalQuery = call.query

\* C1 witness: enhanceQuery("", []) has returned after the intent call and the
\* embedding call both failed.
C1_Witness ==
    /\ EnhanceReturned
    /\ call.query = ""
    /\ call.chatHistory = <<>>
    /\ {"classifyIntent", "embedQuery"} \subseteq failed

\* C2: for a query that classify marks needsEnhancement = FALSE the
\* enhancement entry point issues no LLM call and no embedding call.
C2_FastPathIssuesNoCall ==
    (call.op = "enhanceQuery" /\ ~classify(call.query).needsEnhancement)
        => calls = <<>>

\* C3: under each mode's configuration expandQuerySemantically returns a list
\* that starts with the query and has between 1 and maxExpandedQueries
\* elements (also as the expandedQueries of enhanceQuery).
C3_ExpansionShape ==
    LET shaped(list) ==
            /\ Len(list) >= 1
            /\ list[1] = call.query
            /\ Len(list) <= config.maxExpandedQueries
    IN  IsModeConfig
            => /\ ExpandReturned => shaped(result)
               /\ EnhanceReturned => shaped(result.expandedQueries)

\* C3 witness: in quality mode the expansion returned maxExpandedQueries
\* queries while a further related term was left.
C3_Witness ==
    /\ ExpandReturned
    /\ config = constructor(getModeConfig("quality"))
    /\ Len(result) = config.maxExpandedQueries
    /\ Len(relatedTerms) >= config.maxExpandedQueries

\* C4 (as claimed): with the expansion enabled, a failure of the embedding
\* call, of the related-terms call or of any alternative-query call makes
\* expandQuerySemantically return exactly [query].
C4_AnyFailureAborts ==
    (/\ ExpandReturned
     /\ config.enableSemanticExpansion
     /\ failed \cap {"embedQuery", "relatedTerms", "generateAlternativeQuery"} # {})
        => result = <<call.query>>

\* C4 (amended): with the expansion enabled, a failure of the embedding call or
\* of the related-terms call makes expandQuerySemantically return exactly
\* [query]; a failed alternative-query call does not abort the expansion,
\* whose result still starts with the query; no exception reaches the caller.
C4_EarlyFailureAborts ==
    (call.op = "expandQuerySemantically" /\ config.enableSemanticExpansion)
        => /\ pc # "thrown"
           /\ (pc = "returned" /\ failed \cap {"embedQuery", "relatedTerms"} # {})
                 => result = <<call.query>>
           /\ (pc = "returned" /\ "generateAlternativeQuery" \in failed)
                 => (Len(result) >= 1 /\ result[1] = call.query)

\* C4 witness: an alternative-query call failed, the loop went on, and the
\* expansion returned the query followed by a later alternative.
C4_Witness ==
    /\ ExpandReturned
    /\ config.enableSemanticExpansion
    /\ failed = {"generateAlternativeQuery"}
    /\ Len(result) > 1
    /\ result[1] = call.query

\* C5: with enableSemanticExpansion false, expandQuerySemantically(q) returns
\* exactly [q] and issues no embedding call and no LLM call (and inside
\* enhanceQuery the expansion stage issues none).
C5_DisabledExpansionIsPassThrough ==
    ~config.enableSemanticExpansion
        => /\ call.op = "expandQuerySemantically"
                => (pc = "returned" /\ result = <<call.query>> /\ calls = <<>>)
           /\ call.op = "enhanceQuery"
                => /\ \A k \in 1..Len(calls) : calls[k].site \notin ExpansionSites
                   /\ pc = "returned" => result.expandedQueries = <<call.query>>

\* C5 witness: an enhancer constructed with { enableSemanticExpansion: false }
\* has returned from expandQuerySemantically.
C5_Witness ==
    /\ ExpandReturned
    /\ config = constructor([enableSemanticExpansion |-> FALSE])
    /\ config.maxExpandedQueries = 5

(***************************************************************************)
(* Claims about refineWithContext (checked under Spec)                     *)
(***************************************************************************)
RefineCalled == call.op = "refineWithContext"

RefineReturned == RefineCalled /\ pc = "returned"

\* C11: when context refinement is disabled or the history is empty,
\* refineWithContext(query, history, intent) returns the pass-through record
\* (refinedQuery = query, focusAreas = [], exclusionTerms = [],
\* timeSensitivity = low, sourcePreferences = []) and issues no LLM call.
C11_RefinementPassThrough ==
    (RefineCalled
        /\ (~config.enableContextRefinement \/ call.chatHistory = <<>>))
        => /\ pc = "returned"
           /\ calls = <<>>
           /\ result = [refinedQuery |-> call.query, focusAreas |-> <<>>,
                        exclusionTerms |-> <<>>, timeSensitivity |-> "low",
                        sourcePreferences |-> <<>>]

\* C11 witness: refinement is enabled, the history is empty, and the call for
\* a comparative intent has returned.
C11_Witness ==
    /\ RefineReturned
    /\ config.enableContextRefinement
    /\ call.chatHistory = <<>>
    /\ call.intent = "comparative"
    /\ call.query = "iPhone vs Android"

\* C12: with refinement enabled and a non-empty history, a failed refinement
\* call (it throws, or its reply is not a structured object) makes
\* refineWithContext return the pass-through record, and no exception reaches
\* the caller.
C12_RefinementFailureIsPassThrough ==
    (RefineCalled /\ config.enableContextRefinement
        /\ call.chatHistory # <<>>)
        => /\ pc # "thrown"
           /\ (pc = "returned" /\ "refineWithContext" \in failed)
                 => result = [refinedQuery |-> call.query, focusAreas |-> <<>>,
                              exclusionTerms |-> <<>>,
                              timeSensitivity |-> "low",
                              sourcePreferences |-> <<>>]

\* C12 witness: the refinement call was issued for a non-empty history, it
\* failed, and refineWithContext has returned.
C12_Witness ==
    /\ RefineReturned
    /\ config.enableContextRefinement
    /\ Len(call.chatHistory) > 0
    /\ Len(calls) = 1
    /\ calls[1].site = "refineWithContext"
    /\ failed = {"refineWithContext"}

(***************************************************************************)
(* Claims about the intent and the confidence (checked under Spec)         *)
(***************************************************************************)
IntentCalled == call.op = "classifyIntent"

IntentReturned == IntentCalled /\ pc = "returned"

SpeedReturned == call.op = "enhanceQuerySpeed" /\ pc = "returned"

\* a JavaScript value that is a number in [0,1], in tenths
IsProbability(value) ==
    /\ value.type = "number"
    /\ 0 <= value.tenths
    /\ value.tenths <= 10

\* C13: the intent returned by classifyIntent, and the intent field of every
\* QueryExpansion returned by enhanceQuery, is one of the eight labels, for
\* every reply of the LLM service.
C13_IntentInClosedSet ==
    (IntentReturned \/ EnhanceReturned) => result.intent \in QueryIntent

\* C14: the confidence of every classifyIntent result and of every
\* QueryExpansion returned by enhanceQuery or enhanceQuerySpeed is a number
\* in [0,1], for every reply of the LLM service and for the keyword fallback.
C14_ConfidenceIsProbability ==
    (IntentReturned \/ EnhanceReturned \/ SpeedReturned)
        => IsProbability(result.confidence)

\* the categories in the order of the claim
IntentOrder ==
    <<"factual", "instructional", "opinion", "comparative", "explanatory",
      "news", "academic", "commercial">>

\* the number of keywords of the k-th category contained in the lowercased query
CategoryScore(query, k) ==
    Cardinality({keyword \in intentPatterns[k].keywords :
                    includes(toLowerCase(query), keyword)})

MaxScore(query) ==
    CHOOSE m \in {CategoryScore(query, k) : k \in 1..Len(IntentOrder)} :
        \A k \in 1..Len(IntentOrder) : CategoryScore(query, k) <= m

\* the categories that attain the maximum score
Winners(query) ==
    {k \in 1..Len(IntentOrder) : CategoryScore(query, k) = MaxScore(query)}

FirstWinner(query) ==
    CHOOSE k \in Winners(query) : \A j \in Winners(query) : k <= j

\* C15: when the intent LLM call fails or its reply cannot be parsed,
\* classifyIntent issues no further external call and returns the keyword
\* fallback's verdict: the intent is the first category in the fixed order
\* that attains the maximum keyword score, factual when no keyword matches,
\* and the confidence is min(0.3 * score, 1.0).
C15_FallbackVerdict ==
    (IntentReturned /\ "classifyIntent" \in failed)
        => /\ Len(calls) = 1
           /\ intentPatterns[FirstWinner(call.query)].intent
                  = IntentOrder[FirstWinner(call.query)]
           /\ result.intent =
                  IF MaxScore(call.query) = 0 THEN "factual"
                  ELSE IntentOrder[FirstWinner(call.query)]
           /\ result.confidence =
                  JsNumber(Min(3 * MaxScore(call.query), 10))

\* C15 witness: the intent call failed for a query in which two categories
\* other than factual tie at a score of at least 2, and the earlier one won.
C15_Witness ==
    /\ IntentReturned
    /\ "classifyIntent" \in failed
    /\ MaxScore(call.query) >= 2
    /\ Cardinality(Winners(call.query)) >= 2
    /\ FirstWinner(call.query) > 1
    /\ result.intent = IntentOrder[FirstWinner(call.query)]

\* C16: for the query 'iPhone vs Android' classify returns
\* needsEnhancement = TRUE with a reason that cites comparative language, and
\* the pipeline assigns the intent 'comparative' when the intent is decided by
\* the keyword fallback.
C16_VsQueryIsComparative ==
    (/\ IntentReturned \/ EnhanceReturned
     /\ call.query = "iPhone vs Android"
     /\ "classifyIntent" \in failed)
        => /\ classify(call.query).needsEnhancement
           /\ includes(toLowerCase(classify(call.query).reason), "comparative")
           /\ result.intent = "comparative"

\* C17: enhanceQuerySpeed issues no LLM call and no embedding call and returns
\* a QueryExpansion with originalQuery = query, expandedQueries = [query],
\* intent 'factual' and confidence 0.8, with the fields of the full pipeline's
\* result.
C17_SpeedVariantIsFixed ==
    call.op = "enhanceQuerySpeed"
        => /\ pc = "returned"
           /\ calls = <<>>
           /\ result.originalQuery = call.query
           /\ result.expandedQueries = <<call.query>>
           /\ result.intent = "factual"
           /\ result.confidence = JsNumber(8)
           /\ DOMAIN result =
                  DOMAIN QueryExpansion(config, call.query, call.chatHistory,
                                        NewFrame)

\* C17 witness: enhanceQuerySpeed has returned for a query whose keywords are
\* not those of a factual query, with a non-empty history.
C17_Witness ==
    /\ SpeedReturned
    /\ call.query = "iPhone vs Android"
    /\ Len(call.chatHistory) > 0
    /\ fallbackIntentClassification(call.query).intent # "factual"

\* C18: every call site bounds its external call by a timeout and takes the
\* stage's fallback when the call does not respond, so every enhanceQuery
\* invocation eventually returns a QueryExpansion.
C18_EnhanceQueryReturns ==
    (call.op = "enhanceQuery") ~> (pc = "returned")

\* the n most recent entries of a history
RecentEntries(history, n) ==
    [k \in 1..Min(n, Len(history)) |->
        history[Len(history) - Min(n, Len(history)) + k]]

\* the lowercased words of a list of messages
TokensOf(messages) ==
    UNION {{splitWhiteSpace(toLowerCase(messages[k]))[j] :
               j \in 1..Len(splitWhiteSpace(toLowerCase(messages[k])))} :
           k \in 1..Len(messages)}

\* C19: with contextAnalysisDepth = N, the history placed in the prompt of the
\* intent call and of the refinement call, and the entries tokenized for
\* contextTerms by enhanceQuery and enhanceQuerySpeed, are among the N most
\* recent entries.
C19_OnlyRecentHistoryInspected ==
    call.op # "none"
        => LET recent == RecentEntries(call.chatHistory,
                                       config.contextAnalysisDepth)
           IN  /\ \A k \in 1..Len(calls) :
                     "history" \in DOMAIN calls[k].args
                        => \A j \in 1..Len(calls[k].args.history) :
                              \E r \in 1..Len(recent) :
                                  recent[r] = calls[k].args.history[j]
               /\ (EnhanceReturned \/ SpeedReturned)
                     => \A t \in 1..Len(result.contextTerms) :
                           result.contextTerms[t] \in TokensOf(recent)

(***************************************************************************)
(* Claims about concurrent invocations (checked under SpecConcurrent)      *)
(***************************************************************************)
\* an invocation run alone: the step it takes on a reply
resumeAlone(config_, c, f, reply) ==
    CASE f.pc = "intent_llm" ->
            intentReply(config_, c.op, c.query, c.chatHistory, f, reply)
      [] f.pc = "embed" ->
            embedReply(config_, c.op, c.query, c.chatHistory, f, reply)
      [] f.pc = "terms_llm" ->
            termsReply(config_, c.op, c.query, c.chatHistory, f, reply)
      [] f.pc = "alt_llm" ->
            altReply(config_, c.op, c.query, c.chatHistory, f, reply)
      [] f.pc = "refine_llm" ->
            refineReply(config_, c.op, c.query, c.chatHistory, f, reply)
      [] OTHER -> f

RECURSIVE replayAlone(_, _, _, _)
replayAlone(config_, c, f, replies) ==
    IF replies = <<>> THEN f
    ELSE replayAlone(config_, c, resumeAlone(config_, c, f, Head(replies)),
                     Tail(replies))

\* the frame of the call c run alone on an enhancer with the same
\* configuration, given the same replies in the same order
RunAlone(config_, c, replies) ==
    replayAlone(config_, c,
                startCall(config_, c.op, c.query, c.chatHistory, c.intent),
                replies)

\* C20: concurrent enhanceQuery invocations on the same enhancer do not
\* interfere: at every await and at its return each invocation is where it
\* would be when run alone with the same replies, and its originalQuery and
\* expandedQueries[0] are its own query.
C20_NoInterference ==
    \A p \in Invocations :
        invocations[p].call.op # "none"
            => /\ Locals(p) = RunAlone(config, invocations[p].call,
                                       invocations[p].replies)
               /\ Locals(p).pc # "thrown"
               /\ Locals(p).pc = "returned"
                     => /\ Locals(p).result.originalQuery
                               = invocations[p].call.query
                        /\ Locals(p).result.expandedQueries[1]
                               = invocations[p].call.query

\* C20 witness: one invocation has returned its own query with an alternative
\* while another one, called with another query and whose intent call failed,
\* still awaits a reply.
C20_Witness ==
    \E p \in Invocations : \E q \in Invocations \ {p} :
        /\ Locals(p).pc = "returned"
        /\ Locals(p).result.expandedQueries
               = <<ConcurrentQuery(p), ConcurrentQuery(p) \o " t">>
        /\ "classifyIntent" \notin Locals(p).failed
        /\ Awaits(q, "alt_llm")
        /\ "classifyIntent" \in Locals(q).failed
        /\ invocations[q].call.query # invocations[p].call.query

(***************************************************************************)
(* Claims about the external calls of one invocation (checked under Spec)  *)
(***************************************************************************)
EnhanceCalled == call.op = "enhanceQuery"

\* the positions in the call log of the calls of one call site
CallsOf(service, site) ==
    {k \in 1..Len(calls) : calls[k].service = service /\ calls[k].site = site}

IntentCalls == CallsOf("llm", "classifyIntent")
EmbedCalls == CallsOf("embeddings", "expandQuerySemantically")
TermsCalls == CallsOf("llm", "expandQuerySemantically")
AltCalls == CallsOf("llm", "generateAlternativeQuery")
RefineCalls == CallsOf("llm", "refineWithContext")

\* C26: nothing is retried: one enhanceQuery invocation issues at most 1
\* intent call, 1 embedding call, 1 related-terms call, maxExpandedQueries - 1
\* alternative-query calls (at most one per related term) and 1 refinement
\* call; after a failed embedding call the expander issues no LLM call, after
\* a failed related-terms call no alternative-query call.
C26_NothingRetried ==
    EnhanceCalled
        => /\ Cardinality(IntentCalls) <= 1
           /\ Cardinality(EmbedCalls) <= 1
           /\ Cardinality(TermsCalls) <= 1
           /\ Cardinality(AltCalls) <= config.maxExpandedQueries - 1
           /\ Cardinality(AltCalls) <= Len(relatedTerms)
           /\ Cardinality(RefineCalls) <= 1
           /\ "embedQuery" \in failed => TermsCalls \cup AltCalls = {}
           /\ "relatedTerms" \in failed => AltCalls = {}

\* C26 witness: the intent call and an alternative-query call failed, and the
\* invocation returned after maxExpandedQueries - 1 alternative-query calls.
C26_Witness ==
    /\ EnhanceReturned
    /\ {"classifyIntent", "generateAlternativeQuery"} \subseteq failed
    /\ config.maxExpandedQueries = 5
    /\ Cardinality(AltCalls) = 4
    /\ Len(relatedTerms) > 4
    /\ Cardinality(IntentCalls) = 1

\* the stage of a call in the order of the pipeline
StageOf(c) ==
    CASE c.site = "classifyIntent" -> 1
      [] c.site = "expandQuerySemantically" /\ c.service = "embeddings" -> 2
      [] c.site = "expandQuerySemantically" /\ c.service = "llm" -> 3
      [] c.site = "generateAlternativeQuery" -> 4
      [] c.site = "refineWithContext" -> 5

\* the await at which the reply of a call of each stage is awaited
AwaitOf == <<"intent_llm", "embed", "terms_llm", "alt_llm", "refine_llm">>

Awaiting == pc \in {AwaitOf[k] : k \in 1..Len(AwaitOf)}

\* the calls are in the order of the stages, only the alternative-query stage
\* repeats; a suspended invocation awaits its last call and nothing else
CallsInOrder ==
    /\ \A j \in 1..Len(calls) : \A k \in (j + 1)..Len(calls) :
          \/ StageOf(calls[j]) < StageOf(calls[k])
          \/ StageOf(calls[j]) = 4 /\ StageOf(calls[k]) = 4
    /\ Awaiting
          => /\ calls # <<>>
             /\ AwaitOf[StageOf(calls[Len(calls)])] = pc
    /\ \A k \in AltCalls :
          LET n == Cardinality({j \in AltCalls : j <= k})
          IN  calls[k].args = [query |-> call.query, term |-> relatedTerms[n]]
    /\ \A k \in RefineCalls : calls[k].args.intent = intentResult.intent

\* a step issues at most one call, and only on entry or on the reply to the
\* awaited call
OneCallAtATime ==
    Len(calls') > Len(calls)
        => /\ Len(calls') = Len(calls) + 1
           /\ pc = "idle" \/ Awaiting

\* C27: within one enhanceQuery invocation the external calls are issued one
\* after another, each only after the previous one has completed or failed,
\* in the order intent, embedding, related terms, alternative queries in term
\* order, refinement; at most one call is outstanding, and the refinement is
\* given the intent of the first stage.
C27_CallsOneAfterAnother ==
    /\ [](EnhanceCalled => CallsInOrder)
    /\ [][EnhanceCalled' => OneCallAtATime]_vars

\* C27 witness: the refinement call is awaited after two alternative-query
\* calls, with the intent the model replied.
C27_Witness ==
    /\ EnhanceCalled
    /\ pc = "refine_llm"
    /\ Cardinality(AltCalls) >= 2
    /\ intentResult.intent = "comparative"
    /\ calls[Len(calls)].args.intent = "comparative"

(***************************************************************************)
(* Claims about the extracted terms (checked under Spec)                   *)
(***************************************************************************)
\* the lowercased tokens of a list of messages, in order
RECURSIVE TokenStream(_)
TokenStream(messages) ==
    IF messages = <<>> THEN <<>>
    ELSE splitWhiteSpace(toLowerCase(Head(messages)))
             \o TokenStream(Tail(messages))

IsTerm(token) ==
    /\ Len(token) > 3
    /\ token \notin stopWords
    /\ toLowerCase(token) = token

FirstSeen(stream, token) ==
    CHOOSE k \in 1..Len(stream) :
        stream[k] = token /\ \A j \in 1..(k - 1) : stream[j] # token

\* terms are the first cap distinct tokens of the stream that qualify
TermsWellFormed(terms, stream, cap) ==
    /\ Len(terms) <= cap
    /\ \A k \in 1..Len(terms) : IsTerm(terms[k]) /\ Contains(stream, terms[k])
    /\ \A a \in 1..Len(terms) : \A b \in (a + 1)..Len(terms) :
          /\ terms[a] # terms[b]
          /\ FirstSeen(stream, terms[a]) < FirstSeen(stream, terms[b])
    /\ \A j \in 1..Len(stream) :
          (IsTerm(stream[j]) /\ ~Contains(terms, stream[j]))
             => /\ Len(terms) = cap
                /\ FirstSeen(stream, terms[cap]) < j

\* C28: in every QueryExpansion semanticTerms (from the expanded queries) and
\* contextTerms (from the consulted history) hold only lowercased tokens
\* longer than 3 characters that are no stop words, without duplicates, in
\* first-seen order, at most 10 and at most 8 of them.
C28_TermsWellFormed ==
    (EnhanceReturned \/ SpeedReturned)
        => /\ TermsWellFormed(result.semanticTerms,
                              TokenStream(result.expandedQueries), 10)
           /\ TermsWellFormed(result.contextTerms,
                              TokenStream(sliceLast(call.chatHistory,
                                              config.contextAnalysisDepth)),
                              8)

\* C28 witness: a QueryExpansion with 10 semantic terms and 8 context terms,
\* both lists cut short, has been returned.
C28_Witness ==
    /\ SpeedReturned
    /\ Len(result.semanticTerms) = 10
    /\ Len(result.contextTerms) = 8
    /\ \E j \in 1..Len(TokenStream(result.expandedQueries)) :
          /\ IsTerm(TokenStream(result.expandedQueries)[j])
          /\ ~Contains(result.semanticTerms,
                       TokenStream(result.expandedQueries)[j])
    /\ Contains(TokenStream(call.chatHistory), "which")

(***************************************************************************)
(* The refinement and the result of enhanceQuery (checked under Spec)      *)
(***************************************************************************)
\* C30: the QueryExpansion returned by enhanceQuery does not depend on the
\* outcome of the refinement: from the await of the refinement call, all
\* replies lead to one and the same result, whose expandedQueries are those
\* of the expansion stage; the refined query does not appear in
\* expandedQueries.
C30_RefinementDoesNotMatter ==
    EnhanceCalled
        => /\ pc = "refine_llm"
                => LET outcomes ==
                           {refineReply(config, call.op, call.query,
                                        call.chatHistory, Frame, reply) :
                               reply \in RefineReplies}
                       results == {f.result : f \in outcomes}
                   IN  /\ \A f \in outcomes : f.pc = "returned"
                       /\ Cardinality(results) = 1
                       /\ \A r \in results :
                             r.expandedQueries = expandedQueries
           /\ pc = "returned"
                => /\ result.expandedQueries = expandedQueries
                   /\ contextRefinement.refinedQuery # call.query
                         => ~Contains(result.expandedQueries,
                                      contextRefinement.refinedQuery)

\* C30 witness: enhanceQuery has returned several expanded queries after the
\* refinement replied with a refined query, focus areas and exclusion terms.
C30_Witness ==
    /\ EnhanceReturned
    /\ contextRefinement.refinedQuery = "popular phones in Paris"
    /\ contextRefinement.exclusionTerms # <<>>
    /\ Len(result.expandedQueries) > 1

(***************************************************************************)
(* Claims about getModeConfig (checked under Spec)                         *)
(***************************************************************************)
ModeConfigReturned == call.op = "getModeConfig" /\ pc = "returned"

\* the modes from the cheapest to the most thorough
ModeOrder == <<"speed", "balanced", "quality">>

\* C21: the mode table is strictly monotonic in maxExpandedQueries and in
\* contextAnalysisDepth along speed, balanced, quality, and
\* enableSemanticExpansion and enableContextRefinement are false in speed mode
\* and true in the other two.
C21_ModeTableMonotonic ==
    \A a \in 1..Len(ModeOrder) :
        (ModeConfigReturned /\ call.mode = ModeOrder[a])
            => /\ \A b \in (a + 1)..Len(ModeOrder) :
                     /\ result.maxExpandedQueries
                            < getModeConfig(ModeOrder[b]).maxExpandedQueries
                     /\ result.contextAnalysisDepth
                            < getModeConfig(ModeOrder[b]).contextAnalysisDepth
               /\ \A b \in 1..(a - 1) :
                     /\ getModeConfig(ModeOrder[b]).maxExpandedQueries
                            < result.maxExpandedQueries
                     /\ getModeConfig(ModeOrder[b]).contextAnalysisDepth
                            < result.contextAnalysisDepth
               /\ result.enableSemanticExpansion = (call.mode # "speed")
               /\ result.enableContextRefinement = (call.mode # "speed")

\* C21 witness: getModeConfig('balanced') has returned, the row between the
\* other two.
C21_Witness ==
    /\ ModeConfigReturned
    /\ call.mode = "balanced"
    /\ result.maxExpandedQueries = 5
    /\ result.enableContextRefinement

\* C22: a mode tag other than speed, balanced or quality is rejected with an
\* error: the lookup returns no configuration for it, not even undefined.
C22_UnknownModeRejected ==
    (call.op = "getModeConfig" /\ call.mode \notin Modes) => pc = "thrown"

\* C29: getModeConfig returns for speed, balanced and quality the
\* maxExpandedQueries 3, 5 and 8, the expansionDepth lightweight, moderate and
\* deep, and the contextAnalysisDepth 2, 5 and 10.
C29_ModeTableValues ==
    LET expected ==
            [speed |-> <<3, "lightweight", 2>>,
             balanced |-> <<5, "moderate", 5>>,
             quality |-> <<8, "deep", 10>>]
    IN  (ModeConfigReturned /\ call.mode \in Modes)
            => <<result.maxExpandedQueries, result.expansionDepth,
                 result.contextAnalysisDepth>> = expected[call.mode]

(***************************************************************************)
(* Claims about QueryClassifier (checked under SpecClassifier)             *)
(***************************************************************************)
ClassifyReturned ==
    classifierPc = "returned" /\ classifierCall.op = "classify"

StatsReturned ==
    classifierPc = "returned" /\ classifierCall.op = "getClassificationStats"

\* the normalized text of the classified query
ClassifiedText == normalizedQuery(classifierCall.arg)

MatchesAnyPattern(s) ==
    hasComparativePatterns(s) \/ hasOpinionPatterns(s) \/ hasResearchPatterns(s)

\* the ordered decision table on the predicates of the normalized query s
DecisionTable(s) ==
    LET simple == isSimpleQuestion(s)
        complex == hasComplexKeywords(s)
        short == wordCount(s) <= 8
        long == wordCount(s) > 15
        factual == hasFactualIndicators(s)
    IN  << [when |-> simple /\ short /\ factual /\ ~complex,
            verdict |-> <<FALSE, 9>>],
           [when |-> complex \/ hasComparativePatterns(s)
                        \/ hasOpinionPatterns(s) \/ hasResearchPatterns(s)
                        \/ long,
            verdict |-> <<TRUE, 8>>],
           [when |-> simple /\ ~factual, verdict |-> <<TRUE, 6>>],
           [when |-> short /\ ~complex, verdict |-> <<FALSE, 7>>],
           [when |-> TRUE, verdict |-> <<TRUE, 5>>] >>

\* the first rule of the table that matches
FirstRule(table) ==
    CHOOSE k \in 1..Len(table) :
        table[k].when /\ \A j \in 1..(k - 1) : ~table[j].when

\* C23: for a query of normalized length at least 3 the pair
\* (needsEnhancement, confidence) returned by classify is the verdict of the
\* first matching rule of the ordered decision table (a) .. (e).
C23_DecisionTable ==
    (ClassifyReturned /\ Len(ClassifiedText) >= 3)
        => LET table == DecisionTable(ClassifiedText)
           IN  <<classifierResult.needsEnhancement, classifierResult.confidence>>
                   = table[FirstRule(table)].verdict

\* C23 witness: a query has been classified by rule (c) although rule (d)
\* matches it as well.
C23_Witness ==
    /\ ClassifyReturned
    /\ Len(ClassifiedText) >= 3
    /\ FirstRule(DecisionTable(ClassifiedText)) = 3
    /\ DecisionTable(ClassifiedText)[4].when
    /\ classifierResult.confidence = 6

\* the question forms a simple query opens with
QuestionForms == {"what is", "who wrote", "where is", "when did", "how many"}

OpensWithQuestionForm(s) ==
    \E form \in QuestionForms :
        /\ MatchAt(s, form, 1)
        /\ Len(s) > Len(form)
        /\ IsWhiteSpace(charAt(s, Len(form) + 1))

\* C24: a query of at most 8 words that opens with a question form and
\* contains no complex keyword is classified needsEnhancement = FALSE with a
\* confidence above 0.7 and a reason containing 'Simple factual question',
\* whether or not it contains a factual indicator.
C24_QuestionFormIsFastPath ==
    (/\ ClassifyReturned
     /\ OpensWithQuestionForm(ClassifiedText)
     /\ wordCount(ClassifiedText) <= 8
     /\ ~hasComplexKeywords(ClassifiedText))
        => /\ classifierResult.needsEnhancement = FALSE
           /\ classifierResult.confidence > 7
           /\ includes(classifierResult.reason, "Simple factual question")

\* C25: a query of normalized length at least 3 that neither opens with a
\* simple-question pattern nor contains a factual indicator is classified
\* needsEnhancement = TRUE.
C25_NoEvidenceMeansEnhancement ==
    (/\ ClassifyReturned
     /\ Len(ClassifiedText) >= 3
     /\ ~isSimpleQuestion(ClassifiedText)
     /\ ~hasFactualIndicators(ClassifiedText))
        => classifierResult.needsEnhancement = TRUE

\* C6: every query whose normalized text matches a comparative, an opinion or
\* a research pattern is classified needsEnhancement = TRUE, whatever the
\* other predicates evaluate to.
C6_PatternForcesEnhancement ==
    (ClassifyReturned /\ MatchesAnyPattern(ClassifiedText))
        => classifierResult.needsEnhancement = TRUE

\* C7: a query that matches a simple wh-question pattern, has at most 8 words
\* (as classify counts them), contains a factual indicator and contains no
\* complex keyword is classified needsEnhancement = FALSE with confidence 0.9.
C7_SimpleFactualFastPath ==
    (/\ ClassifyReturned
     /\ isSimpleQuestion(ClassifiedText)
     /\ wordCount(ClassifiedText) <= 8
     /\ hasFactualIndicators(ClassifiedText)
     /\ ~hasComplexKeywords(ClassifiedText))
        => /\ classifierResult.needsEnhancement = FALSE
           /\ classifierResult.confidence = 9

\* C7 witness: such a query, one that also matches a comparative pattern, has
\* been classified.
C7_Witness ==
    /\ ClassifyReturned
    /\ isSimpleQuestion(ClassifiedText)
    /\ wordCount(ClassifiedText) = 8
    /\ hasFactualIndicators(ClassifiedText)
    /\ ~hasComplexKeywords(ClassifiedText)
    /\ hasComparativePatterns(ClassifiedText)

\* C8: a query whose trimmed, lowercased form has fewer than 3 characters is
\* classified needsEnhancement = TRUE with confidence 0.9 and a reason saying
\* that the query is too short.
C8_TooShortDefaultsToEnhancement ==
    (ClassifyReturned /\ Len(toLowerCase(trim(classifierCall.arg))) < 3)
        => /\ classifierResult.needsEnhancement = TRUE
           /\ classifierResult.confidence = 9
           /\ includes(toLowerCase(classifierResult.reason), "too short")

\* C8 witness: the two-letter query "vs", itself a comparative pattern and a
\* complex keyword, has been classified.
C8_Witness ==
    /\ ClassifyReturned
    /\ classifierCall.arg = "vs"
    /\ hasComparativePatterns(ClassifiedText)
    /\ hasComplexKeywords(ClassifiedText)

\* C9: getClassificationStats([]) returns {total: 0, simple: 0, complex: 0,
\* averageConfidence: 0}, the mean being the number 0.
C9_EmptyStatsAreZero ==
    (StatsReturned /\ classifierCall.arg = <<>>)
        => classifierResult =
               [total |-> 0, simple |-> 0, complex |-> 0,
                averageConfidence |-> Number(0)]

\* C10: for every input string classify returns a confidence in [0,1], and
\* the value is one of 0.5, 0.6, 0.7, 0.8, 0.9.
C10_ConfidenceInUnitInterval ==
    ClassifyReturned
        => /\ classifierResult.confidence \in {5, 6, 7, 8, 9}
           /\ 0 <= classifierResult.confidence
           /\ classifierResult.confidence <= 10

\* C10 witness: the empty string has been classified.
C10_Witness ==
    /\ ClassifyReturned
    /\ classifierCall.arg = ""
    /\ classifierResult.confidence = 9

====
